---- MODULE Spec2Model ----
(***************************************************************************)
(* Model of the document summarizer (src/src/summarizer).                  *)
(*                                                                         *)
(*   pii.py        _chunk_text_simple, contains_pii, redact_pii            *)
(*   summarize.py  summarize_text                                          *)
(*   extract.py    _blocks_to_text, extract_text_from_pdf_s3,              *)
(*                 extract_text_for_summary                                *)
(*                                                                         *)
(* A Python str is a sequence of Unicode code points; the model keeps it   *)
(* as a sequence of integers (97 is "a", 32 is " ").  Python offsets are   *)
(* zero-based and half-open, TLA+ sequences are one-based: Slice and       *)
(* SliceAssign do the conversion, with Python's clamping of slice bounds.  *)
(***************************************************************************)
EXTENDS Integers, Sequences, FiniteSets, TLC

VARIABLES
    \* ---- summarize_text / contains_pii / redact_pii (summarize.py, pii.py)
    entry,          \* the function the caller invoked
    pii_mode,       \* summarize_text's pii_mode argument
    text,           \* the text argument, as passed by the caller
    mask,           \* the mask argument
    chunk_chars,    \* the value of _CHUNK_CHARS in force
    budget,         \* entities the detector may still report for this document
    pc,             \* position in the running function
    chunks,         \* chunks = _chunk_text_simple(text)
    idx,            \* position of the for loop over chunks (1-based)
    redact_ranges,  \* redact_pii's redact_ranges
    merged,         \* redact_pii's merged
    redacted,       \* redact_pii's return value ("".join(result))
    sent,           \* every Text handed to detect_pii_entities, in order
    det_raised,     \* a detect_pii_entities call has raised
    converse_calls, \* number of client.converse calls
    converse_text,  \* the document text placed in the converse request
    outcome,        \* "running", "return", or the exception raised
    ret_flag,       \* boolean return value (contains_pii)
    ret_text,       \* string return value (redact_pii, summarize_text)
    \* ---- extract_text_from_pdf_s3 / extract_text_for_summary (extract.py)
    source,         \* extract_text_for_summary's source argument
    epc,            \* position in the extraction code
    poll_interval,  \* poll_interval argument, in clock ticks
    poll_timeout,   \* poll_timeout argument, in clock ticks
    job_pages,      \* the result pages the Textract job holds (the service's state)
    now,            \* time.monotonic(), in ticks since the call
    deadline,       \* deadline = time.monotonic() + poll_timeout
    result,         \* the last get_document_text_detection response
    blocks,         \* the blocks list being accumulated
    statuses,       \* the JobStatus values the poll responses have carried
    fetched,        \* index of every result page received, in order
    get_calls,      \* number of get_document_text_detection calls
    late_calls,     \* how many of them were issued at or after the deadline
    ext_calls,      \* external collaborators touched by extract_text_for_summary
    eoutcome,       \* "running", "text", or the exception raised
    etext           \* the extracted text returned

pii_vars == <<entry, pii_mode, text, mask, chunk_chars, budget, pc, chunks, idx,
              redact_ranges, merged, redacted, sent, det_raised, converse_calls,
              converse_text, outcome, ret_flag, ret_text>>

ext_vars == <<source, epc, poll_interval, poll_timeout, job_pages, now, deadline,
              result, blocks, statuses, fetched, get_calls, late_calls, ext_calls,
              eoutcome, etext>>

vars == <<pii_vars, ext_vars>>

----------------------------------------------------------------------------
\* Bounds of the exploration.

MaxLen == 3          \* longest text enumerated character by character
MaxChunkChars == 2   \* largest scaled-down chunk size explored
MaxEntities == 2     \* entities the detector reports per document, at most
MaxPages == 2        \* result pages of a Textract job, at most
MaxTimeout == 3      \* largest poll_timeout explored besides the default, in ticks
MaxInterval == 2     \* largest poll_interval explored, in ticks
CallTicks == 1       \* clock ticks a get_document_text_detection call takes

----------------------------------------------------------------------------
\* Python built-ins used by the code.

Min(a, b) == IF a < b THEN a ELSE b
Max(a, b) == IF a > b THEN a ELSE b

\* s[i:j] for 0 <= i, with Python's clamping to len(s).
Slice(s, i, j) ==
    LET n == Len(s)
        lo == Min(i, n)
        hi == Max(lo, Min(j, n))
    IN  SubSeq(s, lo + 1, hi)

\* range(0, n, step) as the sequence of its values (step >= 1).
RangeFrom0(n, step) ==
    [k \in 1..((n + step - 1) \div step) |-> (k - 1) * step]

\* str.isspace() of one code point (the characters str.strip() removes).
IsSpace(c) ==
    \/ c \in 9..13
    \/ c \in 28..32
    \/ c \in {133, 160, 5760, 8232, 8233, 8239, 8287, 12288}
    \/ c \in 8192..8202

\* "not s.strip()": nothing is left once the whitespace is stripped.
StripIsEmpty(s) == \A i \in 1..Len(s) : IsSpace(s[i])

\* "not text or not text.strip()"
IsBlank(s) == Len(s) = 0 \/ StripIsEmpty(s)

\* len(c.encode("utf-8")) of one code point.
Utf8Len(c) ==
    IF c < 128 THEN 1 ELSE IF c < 2048 THEN 2 ELSE IF c < 65536 THEN 3 ELSE 4

\* len(s.encode("utf-8"))
Utf8Size(s) ==
    LET Count(w) == Cardinality({i \in 1..Len(s) : Utf8Len(s[i]) = w})
    IN  Count(1) + 2 * Count(2) + 3 * Count(3) + 4 * Count(4)

----------------------------------------------------------------------------
\* pii.py

\* _CHUNK_CHARS, and the service limit its comment states (bytes per request).
_CHUNK_CHARS == 4000
COMPREHEND_LIMIT_BYTES == 5000

\* Mutant of _chunk_text_simple: the slice stops one character early.
ChunkTextSimple_ShortSlice(t, max_chars) ==
    LET starts == RangeFrom0(Len(t), max_chars)
    IN  [k \in 1..Len(starts) |->
            [chunk |-> Slice(t, starts[k], starts[k] + max_chars - 1), off |-> starts[k]]]

\* _chunk_text_simple(text, max_chars): one (chunk, i) per i in range(0, len, max_chars).
_chunk_text_simple(t, max_chars) ==
    LET starts == RangeFrom0(Len(t), max_chars)
    IN  [k \in 1..Len(starts) |->
            [chunk |-> Slice(t, starts[k], starts[k] + max_chars), off |-> starts[k]]]

\* redact_ranges.sort(key=lambda r: r[0]): stable insertion by start.
RECURSIVE InsertByStart(_, _)
InsertByStart(sorted, r) ==
    IF sorted = <<>> THEN <<r>>
    ELSE IF sorted[Len(sorted)][1] <= r[1] THEN Append(sorted, r)
    ELSE Append(InsertByStart(SubSeq(sorted, 1, Len(sorted) - 1), r), sorted[Len(sorted)])

RECURSIVE SortByStart(_)
SortByStart(rs) ==
    IF rs = <<>> THEN <<>>
    ELSE InsertByStart(SortByStart(SubSeq(rs, 1, Len(rs) - 1)), rs[Len(rs)])

\* Mutant of MergeStep: the boundary test is strict, so touching spans stay apart.
MergeStep_Strict(m, r) ==
    IF m # <<>> /\ r[1] < m[Len(m)][2]
    THEN [m EXCEPT ![Len(m)] = <<m[Len(m)][1], Max(m[Len(m)][2], r[2])>>]
    ELSE Append(m, r)

\* One pass of the merge loop body (pii.py 98-101).
MergeStep(m, r) ==
    IF m # <<>> /\ r[1] <= m[Len(m)][2]
    THEN [m EXCEPT ![Len(m)] = <<m[Len(m)][1], Max(m[Len(m)][2], r[2])>>]
    ELSE Append(m, r)

\* The merge loop over the sorted ranges (pii.py 96-101).
RECURSIVE MergeSorted(_)
MergeSorted(rs) ==
    IF rs = <<>> THEN <<>>
    ELSE MergeStep(MergeSorted(SubSeq(rs, 1, Len(rs) - 1)), rs[Len(rs)])

\* Sort, then merge (pii.py 95-101).
MergeRanges(rs) == MergeSorted(SortByStart(rs))

\* result[start:end] = list(mask)
SliceAssign(res, start, end, m) ==
    LET n == Len(res)
        lo == Min(start, n)
        hi == Max(lo, Min(end, n))
    IN  SubSeq(res, 1, lo) \o m \o SubSeq(res, hi + 1, n)

\* Mutant of ApplyReversed: the spans are applied left to right.
RECURSIVE ApplyReversed_Forward(_, _, _)
ApplyReversed_Forward(res, mg, m) ==
    IF mg = <<>> THEN res
    ELSE ApplyReversed_Forward(SliceAssign(res, mg[1][1], mg[1][2], m), Tail(mg), m)

\* for start, end in reversed(merged): result[start:end] = list(mask)
RECURSIVE ApplyReversed(_, _, _)
ApplyReversed(res, mg, m) ==
    IF mg = <<>> THEN res
    ELSE ApplyReversed(SliceAssign(res, mg[Len(mg)][1], mg[Len(mg)][2], m),
                       SubSeq(mg, 1, Len(mg) - 1), m)

\* What detect_pii_entities may answer for a chunk at char_offset: it raises, or
\* it returns entities with BeginOffset < EndOffset whose shifted range lies
\* inside the document.
Entities(off) ==
    {ent \in [BeginOffset : 0..(Len(text) - off), EndOffset : 0..(Len(text) - off)] :
        ent.BeginOffset < ent.EndOffset}

SeqsUpTo(S, n) == UNION {[1..k -> S] : k \in 0..n}

DetectorResponses(off) ==
    {[raised |-> TRUE, Entities |-> <<>>]}
    \cup {[raised |-> FALSE, Entities |-> es] : es \in SeqsUpTo(Entities(off), budget)}

\* for ent in resp.get("Entities", []): redact_ranges.append((start, end))
ShiftedRanges(es, char_offset) ==
    [k \in 1..Len(es) |->
        <<char_offset + es[k].BeginOffset, char_offset + es[k].EndOffset>>]

\* contains_pii returns b: to its caller, or into summarize_text's block branch
\* (summarize.py 61-65), which raises PIIDetectedError on True.
ContainsReturns(b) ==
    IF entry = "contains_pii"
    THEN /\ pc' = "done"
         /\ outcome' = "return"
         /\ ret_flag' = b
    ELSE /\ pc' = IF b THEN "done" ELSE "converse"
         /\ outcome' = IF b THEN "PIIDetectedError" ELSE outcome
         /\ ret_flag' = ret_flag

\* redact_pii returns r: to its caller, or into summarize_text, which rebinds
\* text to it (summarize.py 66-72).
RedactReturns(r) ==
    /\ redacted' = r
    /\ IF entry = "redact_pii"
       THEN /\ pc' = "done"
            /\ outcome' = "return"
            /\ ret_text' = r
       ELSE /\ pc' = "converse"
            /\ UNCHANGED <<outcome, ret_text>>

\* Mutant of ContainsOnDetectorError: the failed chunk is passed over.
ContainsOnDetectorError_Skip ==
    /\ idx' = idx + 1
    /\ UNCHANGED <<pc, outcome, ret_flag>>

\* Mutant of RedactOnDetectorError: the failed chunk is passed over.
RedactOnDetectorError_Skip ==
    /\ idx' = idx + 1
    /\ UNCHANGED <<pc, outcome, redact_ranges>>

\* contains_pii's except branch (pii.py 56-58): report True.
ContainsOnDetectorError ==
    /\ ContainsReturns(TRUE)
    /\ idx' = idx

\* redact_pii's except branch (pii.py 89-93): raise RuntimeError.
RedactOnDetectorError ==
    /\ pc' = "done"
    /\ outcome' = "RuntimeError"
    /\ UNCHANGED <<idx, redact_ranges>>

\* contains_pii up to its loop (pii.py 45-48).
ContainsEnter ==
    IF IsBlank(text)
    THEN /\ ContainsReturns(FALSE)
         /\ UNCHANGED <<chunks, idx>>
    ELSE /\ chunks' = _chunk_text_simple(text, chunk_chars)
         /\ idx' = 1
         /\ pc' = "contains_loop"
         /\ UNCHANGED <<outcome, ret_flag>>

\* redact_pii up to its loop (pii.py 74-79).
RedactEnter ==
    IF IsBlank(text)
    THEN /\ RedactReturns(text)
         /\ UNCHANGED <<chunks, idx, redact_ranges>>
    ELSE /\ chunks' = _chunk_text_simple(text, chunk_chars)
         /\ idx' = 1
         /\ redact_ranges' = <<>>
         /\ pc' = "redact_loop"
         /\ UNCHANGED <<outcome, ret_text, redacted>>

\* The caller invokes _chunk_text_simple directly.
CallChunk ==
    /\ pc = "call" /\ entry = "_chunk_text_simple"
    /\ chunks' = _chunk_text_simple(text, chunk_chars)
    /\ pc' = "done"
    /\ outcome' = "return"
    /\ UNCHANGED <<entry, pii_mode, text, mask, chunk_chars, budget, idx, redact_ranges,
                   merged, redacted, sent, det_raised, converse_calls, converse_text,
                   ret_flag, ret_text>>
    /\ UNCHANGED ext_vars

\* The caller invokes contains_pii directly.
CallContains ==
    /\ pc = "call" /\ entry = "contains_pii"
    /\ ContainsEnter
    /\ UNCHANGED <<entry, pii_mode, text, mask, chunk_chars, budget, redact_ranges,
                   merged, redacted, sent, det_raised, converse_calls, converse_text,
                   ret_text>>
    /\ UNCHANGED ext_vars

\* The caller invokes redact_pii directly.
CallRedact ==
    /\ pc = "call" /\ entry = "redact_pii"
    /\ RedactEnter
    /\ UNCHANGED <<entry, pii_mode, text, mask, chunk_chars, budget, merged, sent,
                   det_raised, converse_calls, converse_text, ret_flag>>
    /\ UNCHANGED ext_vars

\* summarize_text up to its first external call (summarize.py 55-72).
CallSummarizeText ==
    /\ pc = "call" /\ entry = "summarize_text"
    /\ IF IsBlank(text)
       THEN /\ pc' = "done"
            /\ outcome' = "return"
            /\ ret_text' = <<>>
            /\ UNCHANGED <<chunks, idx, redact_ranges, redacted, ret_flag>>
       ELSE IF pii_mode = "block"
       THEN /\ ContainsEnter
            /\ UNCHANGED <<redact_ranges, redacted, ret_text>>
       ELSE IF pii_mode = "redact"
       THEN /\ RedactEnter
            /\ UNCHANGED ret_flag
       ELSE /\ pc' = "converse"
            /\ UNCHANGED <<chunks, idx, redact_ranges, redacted, outcome, ret_flag,
                           ret_text>>
    /\ UNCHANGED <<entry, pii_mode, text, mask, chunk_chars, budget, merged, sent,
                   det_raised, converse_calls, converse_text>>
    /\ UNCHANGED ext_vars

\* One pass of contains_pii's loop, or its exit (pii.py 49-59).
ContainsStep ==
    /\ pc = "contains_loop"
    /\ IF idx > Len(chunks)
       THEN /\ ContainsReturns(FALSE)
            /\ UNCHANGED <<idx, sent, det_raised, budget>>
       ELSE IF StripIsEmpty(chunks[idx].chunk)
       THEN /\ idx' = idx + 1
            /\ UNCHANGED <<pc, outcome, ret_flag, sent, det_raised, budget>>
       ELSE \E resp \in DetectorResponses(chunks[idx].off) :
            /\ sent' = Append(sent, chunks[idx].chunk)
            /\ det_raised' = (det_raised \/ resp.raised)
            /\ budget' = budget - Len(resp.Entities)
            /\ IF resp.raised
               THEN ContainsOnDetectorError
               ELSE IF resp.Entities # <<>>
               THEN /\ ContainsReturns(TRUE)
                    /\ idx' = idx
               ELSE /\ idx' = idx + 1
                    /\ UNCHANGED <<pc, outcome, ret_flag>>
    /\ UNCHANGED <<entry, pii_mode, text, mask, chunk_chars, chunks, redact_ranges,
                   merged, redacted, converse_calls, converse_text, ret_text>>
    /\ UNCHANGED ext_vars

\* One pass of redact_pii's loop, or the code after it (pii.py 80-106).
RedactStep ==
    /\ pc = "redact_loop"
    /\ IF idx > Len(chunks)
       THEN /\ merged' = MergeRanges(redact_ranges)
            /\ RedactReturns(ApplyReversed(text, MergeRanges(redact_ranges), mask))
            /\ UNCHANGED <<idx, sent, det_raised, budget, redact_ranges>>
       ELSE IF StripIsEmpty(chunks[idx].chunk)
       THEN /\ idx' = idx + 1
            /\ UNCHANGED <<pc, outcome, ret_text, redacted, merged, sent, det_raised,
                           budget, redact_ranges>>
       ELSE \E resp \in DetectorResponses(chunks[idx].off) :
            /\ sent' = Append(sent, chunks[idx].chunk)
            /\ det_raised' = (det_raised \/ resp.raised)
            /\ budget' = budget - Len(resp.Entities)
            /\ IF resp.raised
               THEN RedactOnDetectorError
               ELSE /\ redact_ranges' =
                          redact_ranges \o ShiftedRanges(resp.Entities, chunks[idx].off)
                    /\ idx' = idx + 1
                    /\ UNCHANGED <<pc, outcome>>
            /\ UNCHANGED <<ret_text, redacted, merged>>
    /\ UNCHANGED <<entry, pii_mode, text, mask, chunk_chars, chunks, converse_calls,
                   converse_text, ret_flag>>
    /\ UNCHANGED ext_vars

\* client.converse(...) and the return of the summary (summarize.py 74-102).
\* The request carries the current binding of text; the summary itself is
\* the collaborator's and is not modelled.
Converse ==
    /\ pc = "converse"
    /\ converse_calls' = converse_calls + 1
    /\ converse_text' = IF pii_mode = "redact" THEN redacted ELSE text
    /\ pc' = "done"
    /\ outcome' = "return"
    /\ UNCHANGED <<entry, pii_mode, text, mask, chunk_chars, budget, chunks, idx,
                   redact_ranges, merged, redacted, sent, det_raised, ret_flag, ret_text>>
    /\ UNCHANGED ext_vars

PiiNext ==
    \/ CallChunk
    \/ CallContains
    \/ CallRedact
    \/ CallSummarizeText
    \/ ContainsStep
    \/ RedactStep
    \/ Converse

----------------------------------------------------------------------------
\* extract.py

SetMin(S) == CHOOSE x \in S : \A y \in S : x <= y
SetMax(S) == CHOOSE x \in S : \A y \in S : x >= y

\* str.strip()
Strip(s) ==
    LET keep == {i \in 1..Len(s) : ~IsSpace(s[i])}
    IN  IF keep = {} THEN <<>> ELSE SubSeq(s, SetMin(keep), SetMax(keep))

\* str.lower() (ASCII letters)
Lower(s) == [i \in 1..Len(s) |-> IF s[i] \in 65..90 THEN s[i] + 32 ELSE s[i]]

StartsWith(s, prefix) == Len(s) >= Len(prefix) /\ SubSeq(s, 1, Len(prefix)) = prefix
EndsWith(s, suffix) ==
    Len(s) >= Len(suffix) /\ SubSeq(s, Len(s) - Len(suffix) + 1, Len(s)) = suffix

S3_SCHEME == <<115, 51, 58, 47, 47>>          \* "s3://"
DOT_PDF == <<46, 112, 100, 102>>              \* ".pdf"
DOT_DOC == <<46, 100, 111, 99>>               \* ".doc"
DOT_DOCX == <<46, 100, 111, 99, 120>>         \* ".docx"

\* re.match(r"^s3://([^/]+)/(.+)$", source): the bucket runs to the first "/"
\* after the scheme and is not empty, and the key after it is not empty.
S3Match(s) ==
    LET rest == SubSeq(s, Len(S3_SCHEME) + 1, Len(s))
        slashes == {i \in 1..Len(rest) : rest[i] = 47}
        nomatch == [ok |-> FALSE, bucket |-> <<>>, key |-> <<>>]
    IN  IF ~StartsWith(s, S3_SCHEME) \/ slashes = {} THEN nomatch
        ELSE LET p == SetMin(slashes)
             IN  IF p = 1 \/ p = Len(rest) THEN nomatch
                 ELSE [ok |-> TRUE, bucket |-> SubSeq(rest, 1, p - 1),
                       key |-> SubSeq(rest, p + 1, Len(rest))]

\* The final component of a path (Path(source).name): trailing "/" dropped.
PathName(s) ==
    LET solid == {i \in 1..Len(s) : s[i] # 47}
        end == IF solid = {} THEN 0 ELSE SetMax(solid)
        seps == {i \in 1..end : s[i] = 47}
        start == IF seps = {} THEN 1 ELSE SetMax(seps) + 1
    IN  SubSeq(s, start, end)

\* Path(source).suffix: from the last "." of the name, unless that "." is the
\* first or the last character of the name.
PathSuffix(s) ==
    LET name == PathName(s)
        dots == {i \in 1..Len(name) : name[i] = 46}
    IN  IF dots = {} THEN <<>>
        ELSE LET i == SetMax(dots)
             IN  IF 1 < i /\ i < Len(name) THEN SubSeq(name, i, Len(name)) ELSE <<>>

\* "\n".join(lines)
RECURSIVE JoinLines(_)
JoinLines(lines) ==
    IF lines = <<>> THEN <<>>
    ELSE IF Len(lines) = 1 THEN lines[1]
    ELSE lines[1] \o <<10>> \o JoinLines(Tail(lines))

\* _blocks_to_text(blocks): the Text of the LINE blocks that have one, joined.
_blocks_to_text(bs) ==
    LET lines == SelectSeq(bs, LAMBDA b : b.BlockType = "LINE" /\ b.Text # <<>>)
    IN  JoinLines([k \in 1..Len(lines) |-> lines[k].Text])

\* Defaults of poll_interval and poll_timeout (seconds; one tick is a second).
DEFAULT_POLL_INTERVAL == 2
DEFAULT_POLL_TIMEOUT == 300

\* Blocks and pages a job may hold: LINE blocks "a" and "b", a LINE block
\* without text, a WORD block, and four pages built from them.
LineA == [BlockType |-> "LINE", Text |-> <<97>>]
LineB == [BlockType |-> "LINE", Text |-> <<98>>]
LineEmpty == [BlockType |-> "LINE", Text |-> <<>>]
WordW == [BlockType |-> "WORD", Text |-> <<119>>]
Pages == {<<>>, <<LineA>>, <<LineB>>, <<LineB, WordW, LineEmpty, LineA>>}
Jobs == UNION {[1..n -> Pages] : n \in 0..MaxPages}

JobStatuses == {"IN_PROGRESS", "SUCCEEDED", "FAILED", "PARTIAL_SUCCESS"}

\* The service's answer for result page k of the job: its blocks, and the
\* token of the next page when there is one (0: no NextToken).
PageResponse(k) ==
    [JobStatus |-> "SUCCEEDED",
     Blocks |-> IF k <= Len(job_pages) THEN job_pages[k] ELSE <<>>,
     NextToken |-> IF k < Len(job_pages) THEN k + 1 ELSE 0]

\* The service's answer to a status poll.
PollResponse(st) ==
    IF st = "SUCCEEDED" THEN PageResponse(1)
    ELSE [JobStatus |-> st, Blocks |-> <<>>, NextToken |-> 0]

\* extract_text_from_pdf_s3 up to the loop (extract.py 57-63): the job is
\* submitted (the service now holds some job) and the deadline is set.
StartJob(interval, timeout) ==
    /\ poll_interval' = interval
    /\ poll_timeout' = timeout
    /\ job_pages' \in Jobs
    /\ ext_calls' = Append(ext_calls, "textract.start_document_text_detection")
    /\ deadline' = now + timeout
    /\ epc' = "poll"
    /\ UNCHANGED <<now, result, blocks, statuses, fetched, get_calls, late_calls,
                   eoutcome, etext>>

\* The caller invokes extract_text_from_pdf_s3 directly.
CallPdfS3 ==
    /\ epc = "call" /\ entry = "extract_text_from_pdf_s3"
    /\ StartJob(poll_interval, poll_timeout)
    /\ UNCHANGED source
    /\ UNCHANGED pii_vars

\* Mutant of RaiseTimeout: the generic failure is raised.
RaiseTimeout_AsFailure ==
    /\ eoutcome' = "RuntimeError"
    /\ epc' = "done"

\* raise TimeoutError (extract.py 83)
RaiseTimeout ==
    /\ eoutcome' = "TimeoutError"
    /\ epc' = "done"

\* return _blocks_to_text(blocks) (extract.py 75)
ReturnText(bs) ==
    /\ eoutcome' = "text"
    /\ etext' = _blocks_to_text(bs)
    /\ epc' = "done"

\* The loop test and one status poll with the branch on its status
\* (extract.py 64-79); the page loop and the sleep are steps of their own.
Poll ==
    /\ epc = "poll"
    /\ IF ~(now < deadline)
       THEN /\ RaiseTimeout
            /\ UNCHANGED <<now, result, blocks, statuses, fetched, get_calls, late_calls,
                           etext>>
       ELSE \E st \in JobStatuses :
            /\ result' = PollResponse(st)
            /\ get_calls' = get_calls + 1
            /\ now' = now + CallTicks
            /\ statuses' = statuses \cup {st}
            /\ UNCHANGED late_calls
            /\ IF st = "SUCCEEDED"
               THEN /\ blocks' = result'.Blocks
                    /\ fetched' = Append(fetched, 1)
                    /\ IF result'.NextToken # 0
                       THEN /\ epc' = "pages"
                            /\ UNCHANGED <<eoutcome, etext>>
                       ELSE ReturnText(blocks')
               ELSE IF st = "FAILED"
               THEN /\ eoutcome' = "RuntimeError"
                    /\ epc' = "done"
                    /\ UNCHANGED <<blocks, fetched, etext>>
               ELSE /\ epc' = "sleep"
                    /\ UNCHANGED <<blocks, fetched, eoutcome, etext>>
    /\ UNCHANGED <<source, poll_interval, poll_timeout, job_pages, deadline, ext_calls>>
    /\ UNCHANGED pii_vars

\* time.sleep(poll_interval) (extract.py 81): it raises ValueError for a
\* negative length, and otherwise the clock advances by the interval.
Sleep ==
    /\ epc = "sleep"
    /\ IF poll_interval < 0
       THEN /\ eoutcome' = "ValueError"
            /\ epc' = "done"
            /\ UNCHANGED now
       ELSE /\ now' = now + poll_interval
            /\ epc' = "poll"
            /\ UNCHANGED eoutcome
    /\ UNCHANGED <<source, poll_interval, poll_timeout, job_pages, deadline, result, blocks,
                   statuses, fetched, get_calls, late_calls, ext_calls, etext>>
    /\ UNCHANGED pii_vars

\* The token the next page request carries: result["NextToken"] (extract.py 72).
RequestToken == result.NextToken

\* Mutant of ExtendBlocks: the new page replaces what was collected.
ExtendBlocks_Replace(bs, page) == page

\* blocks.extend(result.get("Blocks", [])) (extract.py 74)
ExtendBlocks(bs, page) == bs \o page

\* One pass of the page loop (extract.py 70-75): the deadline is not consulted.
FetchPage ==
    /\ epc = "pages"
    /\ result' = PageResponse(RequestToken)
    /\ blocks' = ExtendBlocks(blocks, result'.Blocks)
    /\ fetched' = Append(fetched, RequestToken)
    /\ get_calls' = get_calls + 1
    /\ late_calls' = IF now < deadline THEN late_calls ELSE late_calls + 1
    /\ now' = now + CallTicks
    /\ IF result'.NextToken # 0
       THEN UNCHANGED <<epc, eoutcome, etext>>
       ELSE ReturnText(blocks')
    /\ UNCHANGED <<source, poll_interval, poll_timeout, job_pages, deadline, statuses,
                   ext_calls>>
    /\ UNCHANGED pii_vars

\* An outcome of extract_text_for_summary that ends it at once.
Finish(calls, out) ==
    /\ ext_calls' = ext_calls \o calls
    /\ eoutcome' = out
    /\ epc' = "done"
    /\ UNCHANGED <<poll_interval, poll_timeout, job_pages, now, deadline, result, blocks,
                   statuses, fetched, get_calls, late_calls, etext>>

\* extract_text_for_summary (extract.py 110-138).  The text an external
\* read or parse returns is the collaborator's and is not modelled.
ExtractTextForSummary ==
    /\ epc = "call" /\ entry = "extract_text_for_summary"
    /\ LET src == Strip(source)
           is_s3 == StartsWith(Lower(src), S3_SCHEME)
           match == S3Match(src)
           suffix == Lower(PathSuffix(src))
       IN  IF is_s3
           THEN IF ~match.ok
                THEN Finish(<<>>, "ValueError: Invalid S3 URI")
                ELSE IF EndsWith(Lower(match.key), DOT_PDF)
                THEN StartJob(DEFAULT_POLL_INTERVAL, DEFAULT_POLL_TIMEOUT)
                ELSE Finish(<<"s3.get_object">>, "text")
           ELSE IF suffix = DOT_PDF
                THEN Finish(<<"Path.read_bytes", "textract.detect_document_text">>, "text")
                ELSE IF suffix \in {DOT_DOCX, DOT_DOC}
                THEN IF suffix = DOT_DOC
                     THEN Finish(<<>>, "ValueError: Binary .doc is not supported")
                     ELSE Finish(<<"docx.Document">>, "text")
                ELSE Finish(<<"Path.read_text">>, "text")
    /\ UNCHANGED source
    /\ UNCHANGED pii_vars

\* extract_text_for_summary and the poller it hands S3 PDFs to.
ExtNext ==
    \/ ExtractTextForSummary
    \/ Poll
    \/ Sleep
    \/ FetchPage

\* extract_text_from_pdf_s3 called with its own arguments.
PollNext ==
    \/ CallPdfS3
    \/ Poll
    \/ Sleep
    \/ FetchPage

\* Source references: an optional scheme, a body, an extension, optional
\* surrounding blanks.
Schemes == {<<>>, S3_SCHEME, <<83, 51, 58, 47, 47>>}                \* "", "s3://", "S3://"
Bodies == {<<98, 47, 107>>, <<107>>, <<98, 47>>}                  \* "b/k", "k", "b/"
Extensions ==
    {<<>>, DOT_DOC, <<46, 68, 79, 67>>, <<46, 68, 111, 99>>, DOT_DOCX,
     DOT_PDF, <<46, 80, 68, 70>>, <<46, 116, 120, 116>>}
    \* "", ".doc", ".DOC", ".Doc", ".docx", ".pdf", ".PDF", ".txt"
Pads == {<<>>, <<32>>}
Sources ==
    {lead \o scheme \o body \o ext \o trail :
        lead \in Pads, scheme \in Schemes, body \in Bodies, ext \in Extensions, trail \in Pads}

PiiIdle ==
    /\ pii_mode = "off"
    /\ text = <<>>
    /\ mask = <<>>
    /\ chunk_chars = _CHUNK_CHARS
    /\ budget = 0
    /\ pc = "idle"
    /\ chunks = <<>>
    /\ idx = 0
    /\ redact_ranges = <<>>
    /\ merged = <<>>
    /\ redacted = <<>>
    /\ sent = <<>>
    /\ det_raised = FALSE
    /\ converse_calls = 0
    /\ converse_text = <<>>
    /\ outcome = "running"
    /\ ret_flag = FALSE
    /\ ret_text = <<>>

ExtStart ==
    /\ epc = "call"
    /\ job_pages = <<>>
    /\ now = 0
    /\ deadline = 0
    /\ result = [JobStatus |-> "NONE", Blocks |-> <<>>, NextToken |-> 0]
    /\ blocks = <<>>
    /\ statuses = {}
    /\ fetched = <<>>
    /\ get_calls = 0
    /\ late_calls = 0
    /\ ext_calls = <<>>
    /\ eoutcome = "running"
    /\ etext = <<>>

\* summarize_document's call of extract_text_for_summary (summarize.py 129).
InitExtract ==
    /\ PiiIdle
    /\ ExtStart
    /\ entry = "extract_text_for_summary"
    /\ source \in Sources
    /\ poll_interval = DEFAULT_POLL_INTERVAL
    /\ poll_timeout = DEFAULT_POLL_TIMEOUT

SpecExtract == InitExtract /\ [][ExtNext]_vars

\* extract_text_from_pdf_s3 called with any interval from -1 to MaxInterval and
\* any timeout from 0 to MaxTimeout, or with the defaults.
PollArguments ==
    (((-1)..MaxInterval) \X (0..MaxTimeout))
    \cup {<<DEFAULT_POLL_INTERVAL, DEFAULT_POLL_TIMEOUT>>}

InitPoll ==
    /\ PiiIdle
    /\ ExtStart
    /\ entry = "extract_text_from_pdf_s3"
    /\ source = <<>>
    /\ \E args \in PollArguments :
          /\ poll_interval = args[1]
          /\ poll_timeout = args[2]

\* The code is sequential and every call returns, so a step that can be
\* taken is taken.
SpecPoll == InitPoll /\ [][PollNext]_vars /\ WF_vars(PollNext)

----------------------------------------------------------------------------
\* Inputs.

\* Texts of length n: position i holds its own letter or a space, so every
\* pattern of blank and non-blank characters occurs and no two non-blank
\* characters of a text are equal.
TextsOfLen(n) == [1..n -> {0, 1}]
MkText(pattern) == [i \in DOMAIN pattern |-> IF pattern[i] = 1 THEN 96 + i ELSE 32]
Texts == {MkText(p) : p \in UNION {TextsOfLen(n) : n \in 0..MaxLen}}

\* "[REDACTED]", the default of mask (pii.py 67) and pii_mask (summarize.py 43).
DEFAULT_MASK == <<91, 82, 69, 68, 65, 67, 84, 69, 68, 93>>

\* Masks: "", "#" and the default.
Masks == {<<>>, <<35>>, DEFAULT_MASK}

PiiModes == {"redact", "block", "off"}
PiiEntries == {"summarize_text", "contains_pii", "redact_pii", "_chunk_text_simple"}

\* The arguments a function does not take keep their defaults.
PiiStart ==
    /\ entry \in PiiEntries
    /\ pii_mode \in (IF entry = "summarize_text" THEN PiiModes ELSE {"redact"})
    /\ mask \in (IF entry \in {"summarize_text", "redact_pii"} THEN Masks ELSE {DEFAULT_MASK})
    /\ pc = "call"
    /\ chunks = <<>>
    /\ idx = 0
    /\ redact_ranges = <<>>
    /\ merged = <<>>
    /\ redacted = <<>>
    /\ sent = <<>>
    /\ det_raised = FALSE
    /\ converse_calls = 0
    /\ converse_text = <<>>
    /\ outcome = "running"
    /\ ret_flag = FALSE
    /\ ret_text = <<>>

ExtIdle ==
    /\ source = <<>>
    /\ epc = "idle"
    /\ poll_interval = 0
    /\ poll_timeout = 0
    /\ job_pages = <<>>
    /\ now = 0
    /\ deadline = 0
    /\ result = [JobStatus |-> "NONE", Blocks |-> <<>>, NextToken |-> 0]
    /\ blocks = <<>>
    /\ statuses = {}
    /\ fetched = <<>>
    /\ get_calls = 0
    /\ late_calls = 0
    /\ ext_calls = <<>>
    /\ eoutcome = "running"
    /\ etext = <<>>

Init ==
    /\ text \in Texts
    /\ chunk_chars \in 1..MaxChunkChars
    /\ budget = MaxEntities
    /\ PiiStart
    /\ ExtIdle

Next == PiiNext

Spec == Init /\ [][Next]_vars

\* The same code with _CHUNK_CHARS at its real value.  Texts of thousands of
\* characters are not enumerated character by character: a text is a run of one
\* character followed by a run of another, the characters taking 1 to 4 bytes
\* in UTF-8 ("a", " ", U+00E9, U+20AC, U+1F600), the run lengths lying around
\* the chunk size and around 5000/4 characters.  The detector reports no entity.
Fill(c, n) == [i \in 1..n |-> c]

WireTexts ==
    {Fill(c1, n1) \o Fill(c2, n2) :
        c1 \in {97, 233, 8364, 128512}, n1 \in {1, 1250, 1251, _CHUNK_CHARS},
        c2 \in {32, 97}, n2 \in {0, 1, _CHUNK_CHARS}}

InitWire ==
    /\ text \in WireTexts
    /\ chunk_chars = _CHUNK_CHARS
    /\ budget = 0
    /\ PiiStart
    /\ mask = DEFAULT_MASK
    /\ ExtIdle

SpecWire == InitWire /\ [][Next]_vars

----------------------------------------------------------------------------
\* Properties of the PII pipeline (checked under Spec).

InRedact == entry = "redact_pii" \/ (entry = "summarize_text" /\ pii_mode = "redact")
InBlock == entry = "contains_pii" \/ (entry = "summarize_text" /\ pii_mode = "block")

\* The chunks of the text that are sent to the detector when no call ends the loop.
NonBlankChunks ==
    LET cs == _chunk_text_simple(text, chunk_chars)
        keep == SelectSeq(cs, LAMBDA c : ~StripIsEmpty(c.chunk))
    IN  [k \in 1..Len(keep) |-> keep[k].chunk]

\* C1. Fail closed in redaction mode: once a detect_pii_entities call made by
\* redact_pii has raised, whatever the chunk and however many earlier chunks
\* succeeded, the run has ended with RuntimeError, no text was returned or bound
\* for forwarding, and client.converse was not and will not be called.
C1_FailClosed ==
    (InRedact /\ det_raised) =>
        /\ pc = "done"
        /\ outcome = "RuntimeError"
        /\ ret_text = <<>> /\ redacted = <<>>
        /\ converse_calls = 0 /\ converse_text = <<>>

\* The detector raised on the third call of a summarize_text run in redact mode,
\* after an earlier chunk had yielded an entity.
C1_Witness ==
    /\ entry = "summarize_text" /\ pii_mode = "redact"
    /\ det_raised
    /\ Len(sent) = 3
    /\ redact_ranges # <<>>
    /\ outcome = "RuntimeError"

\* C2. Fail open in presence-check mode: contains_pii answers False only when
\* every non-blank chunk was sent, no call raised and no entity was reported;
\* when a call raises it answers True; and in block mode a True answer ends
\* summarize_text with PIIDetectedError without a converse call.
ContainsAnsweredFalse ==
    \/ entry = "contains_pii" /\ outcome = "return" /\ ~ret_flag
    \/ entry = "summarize_text" /\ pii_mode = "block" /\ ~IsBlank(text)
          /\ (pc = "converse" \/ (pc = "done" /\ outcome = "return"))

C2_FailOpen ==
    /\ ContainsAnsweredFalse =>
          /\ sent = NonBlankChunks
          /\ ~det_raised
          /\ budget = MaxEntities
    /\ (InBlock /\ det_raised) =>
          /\ pc = "done"
          /\ converse_calls = 0
          /\ IF entry = "contains_pii"
             THEN outcome = "return" /\ ret_flag
             ELSE outcome = "PIIDetectedError"
    /\ (entry = "summarize_text" /\ pii_mode = "block" /\ budget < MaxEntities) =>
          /\ outcome = "PIIDetectedError"
          /\ converse_calls = 0

\* The detector raised on the second call of a block-mode summarize_text run.
C2_Witness ==
    /\ entry = "summarize_text" /\ pii_mode = "block"
    /\ det_raised
    /\ Len(sent) = 2
    /\ outcome = "PIIDetectedError"

\* redact_pii ran to its return statement (the text was not blank).
RedactFinished ==
    /\ InRedact /\ ~IsBlank(text)
    /\ pc = "converse" \/ (pc = "done" /\ outcome = "return")

\* Character indices covered by a list of (start, end) ranges.
Covered(rs) == {i \in 0..Len(text) : \E k \in 1..Len(rs) : rs[k][1] <= i /\ i < rs[k][2]}

\* C5. Merge correctness: the merged list is sorted by start, consecutive
\* spans neither overlap nor touch, and it covers exactly the indices the
\* collected spans cover.
C5_MergeCorrect ==
    RedactFinished =>
        /\ \A k \in 1..Len(merged) : merged[k][1] < merged[k][2]
        /\ \A k \in 1..(Len(merged) - 1) :
              /\ merged[k][1] < merged[k + 1][1]
              /\ merged[k][2] < merged[k + 1][1]
        /\ Covered(merged) = Covered(redact_ranges)

\* Two spans collected out of order that touch were merged into one.
C5_Witness ==
    /\ RedactFinished
    /\ Len(redact_ranges) = 2
    /\ redact_ranges[2][1] < redact_ranges[1][1]
    /\ redact_ranges[2][2] = redact_ranges[1][1]
    /\ Len(merged) = 1

\* The text with every maximal run of covered indices replaced by one mask,
\* built left to right from the collected spans (not from merged).
ExpectedRedaction(t, rs, m) ==
    LET cov == Covered(rs)
        RECURSIVE Build(_)
        Build(i) ==
            IF i >= Len(t) THEN <<>>
            ELSE IF i \notin cov THEN <<t[i + 1]>> \o Build(i + 1)
            ELSE IF i = 0 \/ (i - 1) \notin cov THEN m \o Build(i + 1)
            ELSE Build(i + 1)
    IN  Build(0)

\* C6. Offset-shift safety: redact_pii's result is the text with each merged
\* span replaced by one copy of the mask and every other character kept in
\* place and order, for masks shorter than, as long as and longer than the
\* spans; with no span the text comes back unchanged; and that result is what
\* is returned or placed in the converse request.
C6_RedactionExact ==
    /\ RedactFinished =>
          /\ redacted = ExpectedRedaction(text, redact_ranges, mask)
          /\ redact_ranges = <<>> => redacted = text
          /\ entry = "redact_pii" => ret_text = redacted
          /\ converse_calls = 1 => converse_text = redacted
    /\ (entry = "redact_pii" /\ IsBlank(text) /\ pc = "done") =>
          (outcome = "return" /\ ret_text = text)

\* Two separate spans were replaced by the ten-character default mask.
C6_Witness ==
    /\ RedactFinished
    /\ mask = DEFAULT_MASK
    /\ Len(merged) = 2
    /\ Len(redacted) = Len(text) - 2 + 2 * Len(DEFAULT_MASK)

\* _chunk_text_simple(text, chunk_chars) has been evaluated into chunks.
Chunked ==
    /\ pc # "call"
    /\ \/ entry = "_chunk_text_simple"
       \/ ~IsBlank(text) /\ entry \in {"contains_pii", "redact_pii"}
       \/ ~IsBlank(text) /\ entry = "summarize_text" /\ pii_mode \in {"block", "redact"}

RECURSIVE ConcatChunks(_)
ConcatChunks(cs) ==
    IF cs = <<>> THEN <<>> ELSE cs[1].chunk \o ConcatChunks(Tail(cs))

\* C7. Chunk reconstruction: the chunks are consecutive and non-overlapping,
\* each holds at most max_chars characters, chunk k records offset
\* (k-1)*max_chars and holds the characters of the text from that offset on,
\* and the chunk texts concatenated in order are the text.
C7_ChunkReconstruction ==
    Chunked =>
        /\ \A k \in 1..Len(chunks) :
              /\ Len(chunks[k].chunk) \in 1..chunk_chars
              /\ chunks[k].off = (k - 1) * chunk_chars
              /\ \A j \in 1..Len(chunks[k].chunk) :
                    chunks[k].chunk[j] = text[chunks[k].off + j]
              /\ k < Len(chunks) =>
                    chunks[k].off + Len(chunks[k].chunk) = chunks[k + 1].off
        /\ ConcatChunks(chunks) = text

\* A text that does not divide evenly: two chunks, the last one short.
C7_Witness ==
    /\ Chunked
    /\ Len(chunks) = 2
    /\ chunk_chars = 2
    /\ Len(chunks[2].chunk) = 1
    /\ chunks[2].off = 2

----------------------------------------------------------------------------
\* Properties of the extraction job poller (checked under SpecPoll).

Terminal == {"SUCCEEDED", "FAILED"}

C3_Safety ==
    /\ (epc = "done" /\ statuses \cap Terminal = {}) => eoutcome = "TimeoutError"
    /\ eoutcome = "RuntimeError" => "FAILED" \in statuses
    /\ eoutcome = "text" => "SUCCEEDED" \in statuses

RECURSIVE Flatten(_)
Flatten(pages) == IF pages = <<>> THEN <<>> ELSE pages[1] \o Flatten(Tail(pages))

\* The lines of one page, and the lines of all pages of the job in page order.
LinesOfPage(page) ==
    LET ls == SelectSeq(page, LAMBDA b : b.BlockType = "LINE" /\ b.Text # <<>>)
    IN  [k \in 1..Len(ls) |-> ls[k].Text]

RECURSIVE LinesOfPages(_)
LinesOfPages(pages) ==
    IF pages = <<>> THEN <<>> ELSE LinesOfPage(pages[1]) \o LinesOfPages(Tail(pages))

\* C4. Success with pagination: the SUCCEEDED status response is taken as the
\* first page, one further page is fetched per continuation token until a
\* response carries none, and the text returned is the text of all pages of
\* the job in fetch order, each page once, whatever number of non-terminal
\* responses came first.
C4_PaginatedSuccess ==
    /\ "SUCCEEDED" \in statuses =>
          /\ epc \in {"pages", "done"}
          /\ eoutcome \in {"running", "text"}
          /\ fetched = [k \in 1..Len(fetched) |-> k]
          /\ blocks = Flatten(SubSeq(job_pages, 1, Min(Len(fetched), Len(job_pages))))
          /\ epc = "pages" <=> Len(fetched) < Len(job_pages)
    /\ eoutcome = "text" =>
          /\ Len(fetched) = Max(1, Len(job_pages))
          /\ etext = JoinLines(LinesOfPages(job_pages))

\* Two non-terminal responses, then SUCCEEDED with two pages "a" and "b".
C4_Witness ==
    /\ eoutcome = "text"
    /\ statuses = {"IN_PROGRESS", "SUCCEEDED"}
    /\ get_calls = 4
    /\ fetched = <<1, 2>>
    /\ etext = <<97, 10, 98>>

\* C10. The poller is a bounded wait (runs with a non-negative interval, so
\* that every call returns): the run ends in Succeeded, Failed or TimedOut,
\* no get_document_text_detection call is issued at or after the deadline, and
\* with a positive interval the number of such calls stays within what the
\* interval/timeout pair allows.
C10_BoundedWait ==
    poll_interval >= 0 =>
        /\ eoutcome \in {"running", "text", "RuntimeError", "TimeoutError"}
        /\ epc = "done" <=> eoutcome # "running"
        /\ late_calls = 0
        /\ (poll_interval > 0 /\ get_calls > 0) =>
              (get_calls - 1) * poll_interval < poll_timeout

----------------------------------------------------------------------------
\* Property of the source dispatcher (checked under SpecExtract).

\* The extension of the final component of the reference (scheme aside) is
\* ".doc" in some letter case.
HasLegacyExtension(ref) ==
    LET src == Strip(ref)
        loc == IF StartsWith(Lower(src), S3_SCHEME)
               THEN SubSeq(src, Len(S3_SCHEME) + 1, Len(src))
               ELSE src
    IN  Lower(PathSuffix(loc)) = DOT_DOC

\* C8. A reference with the legacy .doc extension, local path or S3 URI, is
\* rejected with a ValueError before any read, parse or service call.
C8_LegacyRejected ==
    (epc # "call" /\ HasLegacyExtension(source)) =>
        /\ epc = "done"
        /\ eoutcome \in {"ValueError: Binary .doc is not supported",
                          "ValueError: Invalid S3 URI"}
        /\ ext_calls = <<>>

----------------------------------------------------------------------------
\* Property of the request size (checked under SpecWire).

\* C9. Every Text that contains_pii or redact_pii hands to detect_pii_entities
\* is at most 5000 bytes long once encoded in UTF-8.
C9_ChunkUnderWireLimit ==
    \A k \in 1..Len(sent) : Utf8Size(sent[k]) <= COMPREHEND_LIMIT_BYTES

====
